---- MODULE Spec2Model ----
(***************************************************************************)
(* A model of merge_koreader.py: the Lua-notation parser, the serializer,  *)
(* the annotation merge engine and the command-line pipeline of main().    *)
(*                                                                         *)
(* Text is a sequence of one-character strings; Python's str comparison    *)
(* is the lexicographic comparison of code points (StrLess).  A Python     *)
(* value is a record [kind, n, s, t]: kind names the type, n holds an      *)
(* integer, s a text, t the content of a table (a function from keys to    *)
(* values).  A dict whose keys are known field names (an annotation, a     *)
(* document) is a function whose DOMAIN is the set of keys present.        *)
(***************************************************************************)
EXTENDS Integers, Sequences, FiniteSets, TLC

VARIABLES
    pc,               \* position of the run modelled by the specification
    err,              \* "none", or the exception that ended the run
    annotations_list, \* merge_annotations: its argument
    k,                \* merge_annotations: records of the input consumed
    merged,           \* merge_annotations: the dict, in insertion order
    result,           \* merge_annotations: the sorted list returned
    annotations_dict, \* main: the renumbered table built from result
    files,            \* main: what each path of args.files holds
    all_data,         \* main: the documents parsed so far
    output_data,      \* main: the document assembled
    exit_code,        \* main: the exit status, -1 while running
    output_file,      \* main: the state of the file at args.output
    value,            \* the table handed to the serializer
    text,             \* the text handed to the parser
    commented,        \* the same text with a comment between two tokens
    parsed,           \* what the parser returned for text
    parsed_commented, \* what the parser returned for commented
    insertion         \* the tokens, the place and the comment of commented

mergeVars == <<annotations_list, k, merged, result, annotations_dict>>
mainVars == <<files, all_data, output_data, exit_code, output_file>>
textVars == <<value, text, commented, parsed, parsed_commented, insertion>>
vars == <<pc, err, mergeVars, mainVars, textVars>>

\* The value of the variables a specification does not use.
Unused == <<>>

(***************************************************************************)
(* Bounds of the model.                                                    *)
(***************************************************************************)
MaxLists == 2
MaxRecs == 3

(***************************************************************************)
(* Characters and text.                                                    *)
(***************************************************************************)
\* The characters of the model, in the order of their code points.
Chars ==
    <<"\t", "\n", "\r", " ", "\"", "'", "+", ",", "-", ".", "/",
      "0", "1", "2", "3", "4", "5", "6", "7", "8", "9", "=",
      "A", "E", "N", "[", "\\", "]", "_",
      "a", "b", "c", "e", "f", "i", "k", "l", "n", "r", "s", "t", "u", "x",
      "{", "}">>

\* The rank of ord(c) among the characters of the model: comparing two
\* characters compares their code points.
Ord(c) == CHOOSE i \in 1..Len(Chars) : Chars[i] = c

\* a < b for two str values: the first differing character decides, a proper
\* prefix is smaller.
RECURSIVE StrLess(_, _)
StrLess(a, b) ==
    IF b = <<>> THEN FALSE
    ELSE IF a = <<>> THEN TRUE
    ELSE IF Head(a) = Head(b) THEN StrLess(Tail(a), Tail(b))
    ELSE Ord(Head(a)) < Ord(Head(b))

(***************************************************************************)
(* Python values.                                                          *)
(***************************************************************************)
PyNone == [kind |-> "nil", n |-> 0, s |-> <<>>, t |-> <<>>]
PyInt(i) == [kind |-> "int", n |-> i, s |-> <<>>, t |-> <<>>]
PyStr(x) == [kind |-> "text", n |-> 0, s |-> x, t |-> <<>>]
PyDict(f) == [kind |-> "table", n |-> 0, s |-> <<>>, t |-> f]
PyBool(b) == [kind |-> "bool", n |-> IF b THEN 1 ELSE 0, s |-> <<>>, t |-> <<>>]
\* A float is kept as its literal: the model evaluates no float.
PyFloat(literal) == [kind |-> "float", n |-> 0, s |-> literal, t |-> <<>>]

\* a == b.  Values of different types are unequal (the model has no float
\* and no bool in a compared position, the types Python equates with int).
PyEq(a, b) == a = b

\* Whether a < b is defined: int with int, str with str.  PyNone and dict
\* raise TypeError, as do operands of different types.
Comparable(a, b) ==
    /\ a.kind = b.kind
    /\ a.kind \in {"int", "text"}

\* a < b where it is defined.
PyLt(a, b) ==
    /\ Comparable(a, b)
    /\ IF a.kind = "int" THEN a.n < b.n ELSE StrLess(a.s, b.s)

\* bool(v)
Truthy(v) ==
    CASE v.kind = "nil" -> FALSE
      [] v.kind \in {"int", "bool"} -> v.n # 0
      [] v.kind = "text" -> v.s # <<>>
      [] v.kind = "table" -> DOMAIN v.t # {}

\* hash(v) is defined: a dict is unhashable.
Hashable(v) == v.kind # "table"

\* d.get(f, default)
Get(d, f, default) == IF f \in DOMAIN d THEN d[f] ELSE default

(***************************************************************************)
(* The notation parser.  Positions are 1-based: position p of the model is *)
(* index p - 1 of the code, and p > Len(s) is the end of the input.  A     *)
(* parse result is [err, val, pos]: err is "none" or the exception raised. *)
(***************************************************************************)
Ok(v, p) == [err |-> "none", val |-> v, pos |-> p]
Fail(e) == [err |-> e, val |-> PyNone, pos |-> 0]

\* F(x) with x evaluated once, as an assignment to a local evaluates its
\* right-hand side once (a quantified variable is bound to a value).
Bind(x, F(_)) == CHOOSE y \in {F(v) : v \in {x}} : TRUE

Whitespace == {" ", "\t", "\n", "\r"}
DigitChars == {"0", "1", "2", "3", "4", "5", "6", "7", "8", "9"}
LetterChars ==
    {"A", "E", "N", "a", "b", "c", "e", "f", "i", "k", "l", "n", "r", "s", "t",
     "u", "x"}

\* s[p], or the empty text past the end (as a slice s[p:p+1] gives).
At(s, p) == IF p \in 1..Len(s) THEN s[p] ELSE ""

\* The slice s[from-1:to] of the code: positions from..to, cut at the end.
Slice(s, from, to) ==
    [i \in 1..((IF to < Len(s) THEN to ELSE Len(s)) - from + 1) |-> s[from + i - 1]]

\* s.find(pat, from): the first position >= from where pat occurs, 0 if none.
FindFrom(s, pat, from) ==
    LET hits == {e \in from..(Len(s) - Len(pat) + 1) :
                    SubSeq(s, e, e + Len(pat) - 1) = pat}
    IN  IF hits = {} THEN 0 ELSE CHOOSE e \in hits : \A h \in hits : e <= h

\* The first position >= p that holds no character of set (a loop that
\* advances while the character is in set).
SkipChars(s, p, set) ==
    LET stops == {q \in p..(Len(s) + 1) : At(s, q) \notin set}
    IN  IF p > Len(s) THEN p ELSE CHOOSE q \in stops : \A h \in stops : q <= h

\* ']' + '=' * eq_count + ']'
ClosePattern(eq_count) == <<"]">> \o [i \in 1..eq_count |-> "="] \o <<"]">>

\* The escapes of a short string: the character appended for \c.
Unescape(c) ==
    CASE c = "n" -> "\n"
      [] c = "t" -> "\t"
      [] c = "r" -> "\r"
      [] c = "\r" -> "\n"
      [] OTHER -> c

\* The loop of parse_lua_string from position p, result holding the
\* characters read so far.  The loop ends at the closing quote, at the end
\* of the input, or at a backslash that ends the input.
RECURSIVE StringLoop(_, _, _, _)
StringLoop(s, p, quote_char, acc) ==
    IF p > Len(s) THEN Ok(PyStr(acc), p)
    ELSE IF s[p] = "\\"
    THEN IF p + 1 > Len(s) THEN Ok(PyStr(acc), p + 1)
         ELSE LET crlf == s[p + 1] = "\r" /\ p + 2 <= Len(s) /\ s[p + 2] = "\n"
              IN  StringLoop(s, IF crlf THEN p + 3 ELSE p + 2, quote_char,
                             Append(acc, Unescape(s[p + 1])))
    ELSE IF s[p] = quote_char THEN Ok(PyStr(acc), p + 1)
    ELSE StringLoop(s, p + 1, quote_char, Append(acc, s[p]))

parse_lua_string(s, p) == StringLoop(s, p + 1, s[p], <<>>)

parse_lua_long_string(s, p) ==
    LET open_bracket == SkipChars(s, p + 1, {"="})
        eq_count == open_bracket - (p + 1)
        close_pattern == ClosePattern(eq_count)
        end_pos == FindFrom(s, close_pattern, open_bracket + 1)
        content == Slice(s, open_bracket + 1, end_pos - 1)
    IN  IF At(s, open_bracket) # "[" THEN Fail("ValueError")
        ELSE IF end_pos = 0 THEN Fail("ValueError")
        ELSE Ok(PyStr(IF content # <<>> /\ Head(content) = "\n"
                      THEN Tail(content) ELSE content),
                end_pos + Len(close_pattern))

\* The position after a long comment that opens at p ("--[" with "[" or "="
\* next), 0 when it is no closed long comment.
LongCommentEnd(s, p) ==
    LET bracket_pos == p + 2
        open2 == SkipChars(s, bracket_pos + 1, {"="})
        eq_count == open2 - (bracket_pos + 1)
        end_pos == FindFrom(s, ClosePattern(eq_count), bracket_pos + 2 + eq_count)
    IN  IF At(s, open2) = "[" /\ end_pos # 0
        THEN end_pos + eq_count + 2
        ELSE 0

\* The position of the newline that ends a line comment, or the end of input.
LineEnd(s, p) ==
    LET stops == {q \in p..(Len(s) + 1) : At(s, q) \in {"\n", ""}}
    IN  CHOOSE q \in stops : \A h \in stops : q <= h

\* A variant in which every "--" opens a line comment.
RECURSIVE skip_whitespace_and_comments_LineOnly(_, _)
skip_whitespace_and_comments_LineOnly(s, p) ==
    IF p > Len(s) THEN p
    ELSE IF s[p] \in Whitespace
    THEN Bind(SkipChars(s, p, Whitespace),
              LAMBDA q : skip_whitespace_and_comments_LineOnly(s, q))
    ELSE IF p < Len(s) /\ s[p] = "-" /\ s[p + 1] = "-"
    THEN Bind(LineEnd(s, p),
              LAMBDA q : skip_whitespace_and_comments_LineOnly(s, q))
    ELSE p

RECURSIVE skip_whitespace_and_comments(_, _)
skip_whitespace_and_comments(s, p) ==
    IF p > Len(s) THEN p
    ELSE IF s[p] \in Whitespace
    THEN Bind(SkipChars(s, p, Whitespace),
              LAMBDA q : skip_whitespace_and_comments(s, q))
    ELSE IF p < Len(s) /\ s[p] = "-" /\ s[p + 1] = "-"
    THEN IF /\ p <= Len(s) - 3
            /\ s[p + 2] = "["
            /\ s[p + 3] \in {"[", "="}
            /\ LongCommentEnd(s, p) # 0
         THEN Bind(LongCommentEnd(s, p),
                   LAMBDA q : skip_whitespace_and_comments(s, q))
         ELSE Bind(LineEnd(s, p),
                   LAMBDA q : skip_whitespace_and_comments(s, q))
    ELSE p

\* The end of the match of -?\d+ at p (the position after it), 0 if none.
MatchInteger(s, p) ==
    LET q == IF At(s, p) = "-" THEN p + 1 ELSE p
        e == SkipChars(s, q, DigitChars)
    IN  IF e > q THEN e ELSE 0

\* The end of the match of -?\d+\.?\d*(?:[eE][+-]?\d+)? at p, 0 if none.
MatchNumber(s, p) ==
    LET e1 == MatchInteger(s, p)
        e2 == IF At(s, e1) = "." THEN SkipChars(s, e1 + 1, DigitChars) ELSE e1
        q == IF At(s, e2 + 1) \in {"+", "-"} THEN e2 + 2 ELSE e2 + 1
        e3 == SkipChars(s, q, DigitChars)
    IN  IF e1 = 0 THEN 0
        ELSE IF At(s, e2) \in {"e", "E"} /\ e3 > q THEN e3
        ELSE e2

\* The end of the match of [a-zA-Z_][a-zA-Z0-9_]* at p, 0 if none.
MatchIdentifier(s, p) ==
    IF At(s, p) \in LetterChars \cup {"_"}
    THEN SkipChars(s, p + 1, LetterChars \cup DigitChars \cup {"_"})
    ELSE 0

\* int() of a run of decimal digits.
RECURSIVE DigitsValue(_)
DigitsValue(d) ==
    IF d = <<>> THEN 0
    ELSE 10 * DigitsValue(SubSeq(d, 1, Len(d) - 1))
         + (Ord(d[Len(d)]) - Ord("0"))

\* int(num_str)
ParseInt(num_str) ==
    IF Head(num_str) = "-" THEN 0 - DigitsValue(Tail(num_str))
    ELSE DigitsValue(num_str)

\* s[p:p+n] == word and (p + n >= len(s) or not s[p+n].isalnum())
Keyword(s, p, word) ==
    /\ Slice(s, p, p + Len(word) - 1) = word
    /\ At(s, p + Len(word)) \notin LetterChars \cup DigitChars

\* result[key] = value
Put(d, key, v) == [x \in DOMAIN d \cup {key} |-> IF x = key THEN v ELSE d[x]]

\* The key read at p1, after the '[' of a bracketed key.
BracketKey(s, p1) ==
    IF At(s, p1) \in {"\"", "'"} THEN parse_lua_string(s, p1)
    ELSE IF MatchInteger(s, p1) # 0
    THEN Ok(PyInt(ParseInt(SubSeq(s, p1, MatchInteger(s, p1) - 1))),
            MatchInteger(s, p1))
    ELSE Fail("ValueError")

\* The key of a table entry that starts at p, and the position after it.
ParseKey(s, p) ==
    IF s[p] = "["
    THEN Bind(skip_whitespace_and_comments(s, p + 1), LAMBDA p1 :
         IF p1 > Len(s) THEN Fail("IndexError")
         ELSE Bind(BracketKey(s, p1), LAMBDA key :
              IF key.err # "none" THEN key
              ELSE Bind(skip_whitespace_and_comments(s, key.pos), LAMBDA p2 :
                   IF p2 > Len(s) THEN Fail("IndexError")
                   ELSE IF s[p2] # "]" THEN Fail("ValueError")
                   ELSE Ok(key.val, p2 + 1))))
    ELSE IF MatchIdentifier(s, p) # 0
    THEN Ok(PyStr(SubSeq(s, p, MatchIdentifier(s, p) - 1)), MatchIdentifier(s, p))
    ELSE Fail("ValueError")

RECURSIVE parse_lua_value(_, _)
RECURSIVE TableLoop(_, _, _)

\* The loop of parse_lua_table from position p0, d holding the entries read.
TableLoop(s, p0, d) ==
    Bind(skip_whitespace_and_comments(s, p0), LAMBDA p :
    IF p > Len(s) THEN Fail("ValueError")
    ELSE IF s[p] = "}" THEN Ok(PyDict(d), p + 1)
    ELSE IF s[p] = "," THEN TableLoop(s, p + 1, d)
    ELSE Bind(ParseKey(s, p), LAMBDA key :
         IF key.err # "none" THEN key
         ELSE Bind(skip_whitespace_and_comments(s, key.pos), LAMBDA q :
              IF q > Len(s) THEN Fail("IndexError")
              ELSE IF s[q] # "=" THEN Fail("ValueError")
              ELSE Bind(parse_lua_value(s, q + 1), LAMBDA v :
                   IF v.err # "none" THEN v
                   ELSE Bind(skip_whitespace_and_comments(s, v.pos), LAMBDA r :
                        Bind(Put(d, key.val, v.val), LAMBDA d2 :
                             TableLoop(s, IF At(s, r) = "," THEN r + 1 ELSE r,
                                       d2)))))))

parse_lua_table(s, p) ==
    IF s[p] # "{" THEN Fail("ValueError") ELSE TableLoop(s, p + 1, <<>>)

parse_lua_value(s, p0) ==
    Bind(skip_whitespace_and_comments(s, p0), LAMBDA p :
        IF p > Len(s) THEN Fail("ValueError")
        ELSE IF s[p] = "[" /\ At(s, p + 1) \in {"[", "="}
        THEN parse_lua_long_string(s, p)
        ELSE IF s[p] \in {"\"", "'"} THEN parse_lua_string(s, p)
        ELSE IF s[p] = "{" THEN parse_lua_table(s, p)
        ELSE IF Keyword(s, p, <<"t", "r", "u", "e">>) THEN Ok(PyBool(TRUE), p + 4)
        ELSE IF Keyword(s, p, <<"f", "a", "l", "s", "e">>) THEN Ok(PyBool(FALSE), p + 5)
        ELSE IF Keyword(s, p, <<"n", "i", "l">>) THEN Ok(PyNone, p + 3)
        ELSE IF MatchNumber(s, p) # 0
        THEN LET num_str == SubSeq(s, p, MatchNumber(s, p) - 1)
             IN  IF \E i \in 1..Len(num_str) : num_str[i] \in {".", "e", "E"}
                 THEN Ok(PyFloat(num_str), MatchNumber(s, p))
                 ELSE Ok(PyInt(ParseInt(num_str)), MatchNumber(s, p))
        ELSE Fail("ValueError"))

\* re.search(r'return\s*\{', content): the position of the '{' of the first
\* match, 0 if there is none.
FindReturn(content) ==
    LET word == <<"r", "e", "t", "u", "r", "n">>
        brace(p) == SkipChars(content, p + Len(word), Whitespace)
        hits == {p \in 1..Len(content) :
                    /\ Slice(content, p, p + Len(word) - 1) = word
                    /\ At(content, brace(p)) = "{"}
    IN  IF hits = {} THEN 0 ELSE brace(CHOOSE p \in hits : \A h \in hits : p <= h)

\* parse_lua_file, from the content read.
parse_lua_file(content) ==
    IF FindReturn(content) = 0 THEN Fail("ValueError")
    ELSE parse_lua_table(content, FindReturn(content))

(***************************************************************************)
(* The notation serializer.                                                *)
(***************************************************************************)
\* The characters written for one character of a text.
EscapeChar(c) ==
    CASE c = "\\" -> <<"\\", "\\">>
      [] c = "\"" -> <<"\\", "\"">>
      [] c = "\n" -> <<"\\", "n">>
      [] c = "\r" -> <<"\\", "r">>
      [] c = "\t" -> <<"\\", "t">>
      [] OTHER -> <<c>>

RECURSIVE EscapeAll(_)
EscapeAll(x) == IF x = <<>> THEN <<>> ELSE EscapeChar(Head(x)) \o EscapeAll(Tail(x))

lua_escape_string(x) == <<"\"">> \o EscapeAll(x) \o <<"\"">>

\* str(n) for n >= 0
RECURSIVE NatStr(_)
NatStr(n) ==
    IF n < 10 THEN <<Chars[Ord("0") + n]>>
    ELSE Append(NatStr(n \div 10), Chars[Ord("0") + (n % 10)])

\* str(n)
IntStr(n) == IF n < 0 THEN <<"-">> \o NatStr(0 - n) ELSE NatStr(n)

\* '    ' * indent
RECURSIVE Indent(_)
Indent(indent) ==
    IF indent = 0 THEN <<>> ELSE <<" ", " ", " ", " ">> \o Indent(indent - 1)

\* ka < kb in the order of the keys of a nested table: the integer keys
\* ascending, then the text keys ascending.
KeyBefore(ka, kb) ==
    \/ ka.kind = "int" /\ kb.kind = "text"
    \/ ka.kind = "int" /\ kb.kind = "int" /\ ka.n < kb.n
    \/ ka.kind = "text" /\ kb.kind = "text" /\ StrLess(ka.s, kb.s)

\* sorted_keys = int_keys + str_keys
RECURSIVE SortedKeys(_)
SortedKeys(keys) ==
    IF keys = {} THEN <<>>
    ELSE LET first == CHOOSE ka \in keys : \A kb \in keys \ {ka} : KeyBefore(ka, kb)
         IN  <<first>> \o SortedKeys(keys \ {first})

\* f'[{k}]' or f'["{k}"]': the text of a key is written as it is.
KeyStr(key) ==
    IF key.kind = "int" THEN <<"[">> \o IntStr(key.n) \o <<"]">>
    ELSE <<"[", "\"">> \o key.s \o <<"\"", "]">>

RECURSIVE format_lua_value(_, _)
RECURSIVE FormatEntries(_, _, _)

\* The lines of the entries of table d for the keys of the sequence keys,
\* each followed by a newline.
FormatEntries(d, keys, indent) ==
    IF keys = <<>> THEN <<>>
    ELSE Indent(indent + 1) \o KeyStr(Head(keys)) \o <<" ", "=", " ">>
         \o format_lua_value(d[Head(keys)], indent + 1) \o <<",", "\n">>
         \o FormatEntries(d, Tail(keys), indent)

\* The branches for None, bool, int, str and dict; the model's values hold
\* no float and no list.
format_lua_value(v, indent) ==
    CASE v.kind = "nil" -> <<"n", "i", "l">>
      [] v.kind = "bool" ->
             IF v.n = 1 THEN <<"t", "r", "u", "e">> ELSE <<"f", "a", "l", "s", "e">>
      [] v.kind = "int" -> IntStr(v.n)
      [] v.kind = "text" -> lua_escape_string(v.s)
      [] v.kind = "table" ->
             IF DOMAIN v.t = {} THEN <<"{", "}">>
             ELSE <<"{", "\n">>
                  \o FormatEntries(v.t, SortedKeys(DOMAIN v.t), indent)
                  \o Indent(indent) \o <<"}">>

\* The lines of the top-level entries: every key is written as a text key.
RECURSIVE TopEntries(_, _)
TopEntries(data, keys) ==
    IF keys = <<>> THEN <<>>
    ELSE Indent(1) \o <<"[", "\"">> \o Head(keys).s \o <<"\"", "]", " ", "=", " ">>
         \o format_lua_value(data[Head(keys)], 1) \o <<",", "\n">>
         \o TopEntries(data, Tail(keys))

\* data: a dict whose keys are texts.
generate_lua_output(data) ==
    <<"r", "e", "t", "u", "r", "n", " ", "{", "\n">>
    \o TopEntries(data, SortedKeys(DOMAIN data)) \o <<"}">>

(***************************************************************************)
(* The annotation merge engine.                                            *)
(***************************************************************************)
\* A variant of annotation_key: the tag that tells a highlight from a bookmark
\* is left out of the key.
annotation_key_Untagged(ann) ==
    IF "pos0" \in DOMAIN ann /\ "pos1" \in DOMAIN ann
    THEN <<"key", Get(ann, "pos0", PyNone), Get(ann, "pos1", PyNone)>>
    ELSE <<"key", Get(ann, "page", PyNone), Get(ann, "chapter", PyNone)>>

annotation_key(ann) ==
    IF "pos0" \in DOMAIN ann /\ "pos1" \in DOMAIN ann
    THEN <<"highlight", Get(ann, "pos0", PyNone), Get(ann, "pos1", PyNone)>>
    ELSE <<"bookmark", Get(ann, "page", PyNone), Get(ann, "chapter", PyNone)>>

\* Using the key in the dict hashes the tuple, hence its components.
KeyHashable(key) == Hashable(key[2]) /\ Hashable(key[3])

\* ann.get('datetime_updated', ann.get('datetime', ''))
EffectiveDt(ann) ==
    Get(ann, "datetime_updated", Get(ann, "datetime", PyStr(<<>>)))

\* Index of key in the dict m (a sequence of [key, ann]), 0 when absent.
Find(m, key) ==
    IF \E i \in 1..Len(m) : m[i].key = key
    THEN CHOOSE i \in 1..Len(m) : m[i].key = key
    ELSE 0

\* A variant of IsNewer: the comparison is reversed.
IsNewer_Reversed(new_dt, existing_dt) == PyLt(new_dt, existing_dt)

\* new_dt > existing_dt
IsNewer(new_dt, existing_dt) == PyLt(existing_dt, new_dt)

\* A variant of NoteTieBreak: equal timestamps never replace.
NoteTieBreak_Dropped(ann, existing) == FALSE

\* new_dt == existing_dt and ann.get('note') and not existing.get('note')
NoteTieBreak(ann, existing) ==
    /\ PyEq(EffectiveDt(ann), EffectiveDt(existing))
    /\ Truthy(Get(ann, "note", PyNone))
    /\ ~Truthy(Get(existing, "note", PyNone))

\* One iteration of the inner loop: [m, err] after ann is processed.
MergeOne(m, ann) ==
    LET key == annotation_key(ann)
        i == Find(m, key)
    IN  IF ~KeyHashable(key) THEN [m |-> m, err |-> "TypeError"]
        ELSE IF i = 0
        THEN [m |-> Append(m, [key |-> key, ann |-> ann]), err |-> "none"]
        ELSE IF ~Comparable(EffectiveDt(ann), EffectiveDt(m[i].ann))
        THEN [m |-> m, err |-> "TypeError"]
        ELSE IF IsNewer(EffectiveDt(ann), EffectiveDt(m[i].ann))
                \/ NoteTieBreak(ann, m[i].ann)
        THEN [m |-> [m EXCEPT ![i].ann = ann], err |-> "none"]
        ELSE [m |-> m, err |-> "none"]

\* A variant of SortKey: pos0 is left out of the key.
SortKey_NoPos0(x) ==
    <<Get(x, "pageno", PyInt(0)), PyStr(<<>>), Get(x, "datetime", PyStr(<<>>))>>

\* The key function of sorted().
SortKey(x) ==
    <<Get(x, "pageno", PyInt(0)), Get(x, "pos0", PyStr(<<>>)),
      Get(x, "datetime", PyStr(<<>>))>>

\* First position at which two key tuples differ, 4 when they are equal.
FirstDiff(a, b) ==
    IF ~PyEq(a[1], b[1]) THEN 1
    ELSE IF ~PyEq(a[2], b[2]) THEN 2
    ELSE IF ~PyEq(a[3], b[3]) THEN 3
    ELSE 4

\* Tuple comparison a < b raises TypeError: the first differing components
\* cannot be ordered.
TupleRaises(a, b) ==
    LET d == FirstDiff(a, b) IN d < 4 /\ ~Comparable(a[d], b[d])

\* a < b for two key tuples.
TupleLt(a, b) ==
    LET d == FirstDiff(a, b) IN d < 4 /\ PyLt(a[d], b[d])

\* Insert x after the elements of the sorted sequence s that are not greater:
\* the stable position.
RECURSIVE InsertSorted(_, _)
InsertSorted(s, x) ==
    IF s = <<>> THEN <<x>>
    ELSE IF TupleLt(SortKey(x), SortKey(s[Len(s)]))
    THEN Append(InsertSorted(SubSeq(s, 1, Len(s) - 1), x), s[Len(s)])
    ELSE Append(s, x)

RECURSIVE StableSort(_)
StableSort(s) ==
    IF s = <<>> THEN <<>>
    ELSE InsertSorted(StableSort(SubSeq(s, 1, Len(s) - 1)), s[Len(s)])

\* sorted(merged.values(), key=...): the values in insertion order, stably
\* sorted; TypeError when two of the keys cannot be ordered.
Sorted(m) ==
    LET vals == [i \in 1..Len(m) |-> m[i].ann]
    IN  IF \E i, j \in 1..Len(m) : TupleRaises(SortKey(vals[i]), SortKey(vals[j]))
        THEN [list |-> <<>>, err |-> "TypeError"]
        ELSE [list |-> StableSort(vals), err |-> "none"]

\* The records of the lists in processing order (the two nested loops).
RECURSIVE Flatten(_)
Flatten(lists) ==
    IF lists = <<>> THEN <<>> ELSE Head(lists) \o Flatten(Tail(lists))

\* merge_annotations up to the sort: the dict after every record of flat.
RECURSIVE MergeAll(_, _)
MergeAll(m, flat) ==
    IF flat = <<>> THEN [m |-> m, err |-> "none"]
    ELSE LET r == MergeOne(m, Head(flat))
         IN  IF r.err # "none" THEN r ELSE MergeAll(r.m, Tail(flat))

merge_annotations(lists) ==
    LET r == MergeAll(<<>>, Flatten(lists))
    IN  IF r.err # "none" THEN [list |-> <<>>, err |-> r.err]
        ELSE Sorted(r.m)

(***************************************************************************)
(* Inputs of the merge engine.  Every record of one run is drawn from one  *)
(* of three families: same-key records that differ in their timestamps,    *)
(* same-key records that differ in timestamp and note, and records of      *)
(* several identities and sort positions.                                  *)
(***************************************************************************)
Fld(f, v) == f :> v
HL(p0, p1) == Fld("pos0", PyStr(p0)) @@ Fld("pos1", PyStr(p1))
BK(pg, ch) == Fld("page", PyStr(pg)) @@ Fld("chapter", PyStr(ch))

RecencyRecs ==
    LET K == HL(<<"a">>, <<"b">>) @@ Fld("pageno", PyInt(1))
    IN  { K,
          K @@ Fld("datetime", PyStr(<<"2">>)),
          K @@ Fld("datetime_updated", PyStr(<<"1">>))
            @@ Fld("datetime", PyStr(<<"2">>)),
          K @@ Fld("datetime_updated", PyStr(<<"1", "0">>)),
          K @@ Fld("datetime_updated", PyStr(<<"2">>)),
          BK(<<"a">>, <<"b">>) @@ Fld("datetime", PyStr(<<"1">>)) }

NoteRecs ==
    LET K == BK(<<"a">>, <<"b">>) @@ Fld("pageno", PyInt(1))
    IN  { K @@ Fld("datetime_updated", PyStr(d)) : d \in {<<"1">>, <<"2">>} }
        \cup { K @@ Fld("datetime_updated", PyStr(d)) @@ Fld("note", PyStr(n)) :
                 d \in {<<"1">>, <<"2">>}, n \in {<<>>, <<"n">>} }

IdentityRecs ==
    { HL(<<"a">>, <<"b">>) @@ Fld("pageno", PyInt(2))
        @@ Fld("datetime", PyStr(<<"1">>)),
      HL(<<"a">>, <<"a">>) @@ Fld("pageno", PyInt(2))
        @@ Fld("datetime", PyStr(<<"2">>)),
      HL(<<"b">>, <<"b">>) @@ Fld("pageno", PyInt(2)),
      BK(<<"a">>, <<"b">>) @@ Fld("pageno", PyInt(10)),
      BK(<<"a">>, <<"b">>) @@ Fld("pos0", PyStr(<<"b">>))
        @@ Fld("pageno", PyInt(2)) @@ Fld("datetime", PyStr(<<"2">>)),
      Fld("pos0", PyNone) @@ Fld("pos1", PyNone) @@ Fld("pageno", PyInt(7)),
      Fld("datetime", PyStr(<<"1">>)) }

Families == {RecencyRecs, NoteRecs, IdentityRecs}

SeqsUpTo(S, n) == UNION {[1..len -> S] : len \in 0..n}

\* The lists cut out of flat at the positions cuts (increasing).
Split(flat, cuts) ==
    [j \in 1..(Len(cuts) + 1) |->
        SubSeq(flat,
               (IF j = 1 THEN 0 ELSE cuts[j - 1]) + 1,
               IF j = Len(cuts) + 1 THEN Len(flat) ELSE cuts[j])]

\* Up to MaxLists lists holding up to MaxRecs records of U in all; the last
\* list may be empty.
Inputs(U) ==
    { Split(flat, cuts) :
        <<flat, cuts>> \in
            { fc \in SeqsUpTo(U, MaxRecs) \X SeqsUpTo(1..MaxRecs, MaxLists - 1) :
                \A j \in 1..Len(fc[2]) :
                    /\ fc[2][j] <= Len(fc[1])
                    /\ j > 1 => fc[2][j - 1] < fc[2][j] } }

(***************************************************************************)
(* SpecMerge: one call of merge_annotations, record by record, followed by *)
(* main's renumbering of the returned list.                                *)
(***************************************************************************)
InitMerge ==
    /\ pc = "merging"
    /\ err = "none"
    /\ \E U \in Families : annotations_list \in Inputs(U)
    /\ k = 0
    /\ merged = <<>>
    /\ result = <<>>
    /\ annotations_dict = <<>>
    /\ files = Unused /\ all_data = Unused /\ output_data = Unused
    /\ exit_code = -1 /\ output_file = Unused
    /\ value = Unused /\ text = Unused /\ commented = Unused
    /\ parsed = Unused /\ parsed_commented = Unused /\ insertion = Unused

\* One iteration of the loops over annotations_list.
MergeStep ==
    /\ pc = "merging"
    /\ k < Len(Flatten(annotations_list))
    /\ LET r == MergeOne(merged, Flatten(annotations_list)[k + 1])
       IN  /\ merged' = r.m
           /\ err' = r.err
           /\ pc' = IF r.err = "none" THEN "merging" ELSE "raised"
    /\ k' = k + 1
    /\ UNCHANGED <<annotations_list, result, annotations_dict, mainVars, textVars>>

\* The loops are over: sort and return.
MergeSort ==
    /\ pc = "merging"
    /\ k = Len(Flatten(annotations_list))
    /\ LET r == Sorted(merged)
       IN  /\ result' = r.list
           /\ err' = r.err
           /\ pc' = IF r.err = "none" THEN "merged" ELSE "raised"
    /\ UNCHANGED <<annotations_list, k, merged, annotations_dict, mainVars, textVars>>

\* annotations_dict = {i: ann for i, ann in enumerate(merged_annotations, 1)}
Renumber ==
    /\ pc = "merged"
    /\ annotations_dict' = [i \in 1..Len(result) |-> result[i]]
    /\ pc' = "renumbered"
    /\ UNCHANGED <<err, annotations_list, k, merged, result, mainVars, textVars>>

NextMerge == MergeStep \/ MergeSort \/ Renumber

SpecMerge == InitMerge /\ [][NextMerge]_vars

(***************************************************************************)
(* The command-line pipeline, main().  A document is a function from the   *)
(* top-level keys present to values; its annotations table holds the keys  *)
(* 1..N, as KOReader and the serializer write it, so it is a sequence.     *)
(***************************************************************************)
MaxFiles == 2

\* Lines 423-431: the annotation lists of the documents that have one, each
\* in the order of its integer keys.
Collect(data) ==
    LET has == {j \in 1..Len(data) : "annotations" \in DOMAIN data[j]}
        nth(n) == CHOOSE j \in has : Cardinality({h \in has : h < j}) = n - 1
    IN  [n \in 1..Cardinality(has) |->
            LET t == data[nth(n)]["annotations"].t
            IN  [i \in 1..Len(t) |-> t[i].t]]

\* Number of elements of the sequence seq that satisfy Test.
Count(seq, Test(_)) == Cardinality({i \in 1..Len(seq) : Test(seq[i])})

\* key=lambda x: x.get('modified', '')
ModifiedKey(x) == Get(x.t, "modified", PyStr(<<>>))

\* [d.get('summary') for d in all_data if d.get('summary')]
Summaries(data) ==
    LET keep == {j \in 1..Len(data) : Truthy(Get(data[j], "summary", PyNone))}
        nth(n) == CHOOSE j \in keep : Cardinality({h \in keep : h < j}) = n - 1
    IN  [n \in 1..Cardinality(keep) |-> data[nth(n)]["summary"]]

\* summaries.sort(key=..., reverse=True); summaries[0]: the first, in list
\* order, of the summaries whose key is greatest (the sort is stable).
MostRecent(summaries) ==
    LET best == {i \in 1..Len(summaries) :
                    \A j \in 1..Len(summaries) :
                        ~PyLt(ModifiedKey(summaries[i]), ModifiedKey(summaries[j]))}
    IN  summaries[CHOOSE i \in best : \A j \in best : i <= j]

\* The sort raises: a summary that is no table has no get(), and two keys
\* that cannot be ordered raise TypeError.
SummaryError(summaries) ==
    IF \E i \in 1..Len(summaries) : summaries[i].kind # "table"
    THEN "AttributeError"
    ELSE IF \E i, j \in 1..Len(summaries) :
                i # j /\ ~Comparable(ModifiedKey(summaries[i]), ModifiedKey(summaries[j]))
    THEN "TypeError"
    ELSE "none"

\* Lines 436-489: the output document, or the exception raised on the way.
assemble(merged_annotations, data) ==
    LET first_data == data[1]
        highlights == Count(merged_annotations, LAMBDA ann : "pos0" \in DOMAIN ann)
        notes == Count(merged_annotations, LAMBDA ann : Truthy(Get(ann, "note", PyNone)))
        doc_props == Get(first_data, "doc_props", PyDict(<<>>))
        copied == {"doc_pages", "doc_path", "doc_props", "partial_md5_checksum"}
                      \cap DOMAIN first_data
        stats ==
            Fld("authors", Get(doc_props.t, "authors", PyStr(<<>>)))
            @@ Fld("highlights", PyInt(highlights))
            @@ Fld("language", Get(doc_props.t, "language", PyStr(<<>>)))
            @@ Fld("notes", PyInt(notes))
            @@ Fld("pages", Get(first_data, "doc_pages", PyInt(0)))
            @@ Fld("performance_in_pages", PyDict(<<>>))
            @@ Fld("series", PyStr(<<"N", "/", "A">>))
            @@ Fld("title", Get(doc_props.t, "title", PyStr(<<>>)))
        base ==
            Fld("annotations",
                PyDict([i \in 1..Len(merged_annotations) |-> PyDict(merged_annotations[i])]))
            @@ [f \in copied |-> first_data[f]]
            @@ Fld("stats", PyDict(stats))
        summaries == Summaries(data)
    IN  IF doc_props.kind # "table" THEN [data |-> <<>>, err |-> "AttributeError"]
        ELSE IF summaries = <<>> THEN [data |-> base, err |-> "none"]
        ELSE IF SummaryError(summaries) # "none"
        THEN [data |-> <<>>, err |-> SummaryError(summaries)]
        ELSE [data |-> base @@ Fld("summary", MostRecent(summaries)), err |-> "none"]

\* The annotation tables and documents the input files are drawn from.
Bookmark1 == BK(<<"a">>, <<"b">>) @@ Fld("pageno", PyInt(1))

AnnTables ==
    { <<>>,
      <<Bookmark1 @@ Fld("datetime", PyStr(<<"1">>))>>,
      <<Bookmark1 @@ Fld("datetime", PyStr(<<"2">>)) @@ Fld("note", PyStr(<<"n">>)),
        HL(<<"a">>, <<"b">>) @@ Fld("pageno", PyInt(2))>>,
      <<BK(<<"b">>, <<"b">>) @@ Fld("pageno", PyStr(<<"1">>))>>,
      <<Bookmark1 @@ Fld("datetime_updated", PyNone)>> }

AsTable(anns) == PyDict([i \in 1..Len(anns) |-> PyDict(anns[i])])

SummaryValues ==
    { PyDict(<<>>),
      PyDict(Fld("modified", PyStr(<<"1">>))),
      PyDict(Fld("modified", PyStr(<<"2">>))),
      PyDict(Fld("modified", PyStr(<<"2">>)) @@ Fld("status", PyStr(<<"a">>))),
      PyDict(Fld("status", PyStr(<<"b">>))),
      PyStr(<<"a">>) }

PropsValues ==
    { PyDict(<<>>),
      PyDict(Fld("title", PyStr(<<"t">>)) @@ Fld("authors", PyStr(<<"a">>))),
      PyStr(<<"t">>) }

Docs ==
    { <<>> }
    \cup { Fld("annotations", AsTable(a)) : a \in AnnTables }
    \cup { Fld("summary", v) : v \in SummaryValues }
    \cup { Fld("annotations", AsTable(a)) @@ Fld("doc_props", v) @@ Fld("doc_pages", PyInt(2)) :
             a \in {<<HL(<<"a">>, <<"b">>)>>}, v \in PropsValues }

FileStates ==
    { [status |-> "missing", data |-> <<>>], [status |-> "malformed", data |-> <<>>] }
    \cup { [status |-> "ok", data |-> d] : d \in Docs }

Init ==
    /\ pc = "parsing"
    /\ err = "none"
    /\ files \in UNION {[1..n -> FileStates] : n \in 1..MaxFiles}
    /\ all_data = <<>>
    /\ output_data = <<>>
    /\ exit_code = -1
    /\ output_file = "untouched"
    /\ annotations_list = Unused /\ k = 0 /\ merged = Unused
    /\ result = <<>> /\ annotations_dict = Unused
    /\ value = Unused /\ text = Unused /\ commented = Unused
    /\ parsed = Unused /\ parsed_commented = Unused /\ insertion = Unused

\* Lines 406-410: the next file is read and parsed.
ParseOk ==
    /\ pc = "parsing"
    /\ Len(all_data) < Len(files)
    /\ files[Len(all_data) + 1].status = "ok"
    /\ all_data' = Append(all_data, files[Len(all_data) + 1].data)
    /\ UNCHANGED <<pc, err, mergeVars, files, output_data, exit_code, output_file, textVars>>

\* Lines 416-418: the next file does not exist.
ParseNotFound ==
    /\ pc = "parsing"
    /\ Len(all_data) < Len(files)
    /\ files[Len(all_data) + 1].status = "missing"
    /\ pc' = "exited"
    /\ exit_code' = 1
    /\ UNCHANGED <<err, mergeVars, files, all_data, output_data, output_file, textVars>>

\* A variant of ParseFailed: the exception is swallowed and the file counts as
\* an empty document.
ParseFailed_Swallowed ==
    /\ pc = "parsing"
    /\ Len(all_data) < Len(files)
    /\ files[Len(all_data) + 1].status = "malformed"
    /\ all_data' = Append(all_data, <<>>)
    /\ UNCHANGED <<pc, err, mergeVars, files, output_data, exit_code, output_file, textVars>>

\* Lines 419-421: reading or parsing the next file raised.
ParseFailed ==
    /\ pc = "parsing"
    /\ Len(all_data) < Len(files)
    /\ files[Len(all_data) + 1].status = "malformed"
    /\ pc' = "exited"
    /\ exit_code' = 1
    /\ UNCHANGED <<err, mergeVars, files, all_data, output_data, output_file, textVars>>

\* Lines 423-434: every file is parsed; collect and merge.  An exception is
\* not caught: the interpreter ends the run with status 1.
Merge ==
    /\ pc = "parsing"
    /\ Len(all_data) = Len(files)
    /\ LET r == merge_annotations(Collect(all_data))
       IN  /\ result' = r.list
           /\ err' = r.err
           /\ pc' = IF r.err = "none" THEN "merged_all" ELSE "crashed"
           /\ exit_code' = IF r.err = "none" THEN exit_code ELSE 1
    /\ UNCHANGED <<annotations_list, k, merged, annotations_dict,
                   files, all_data, output_data, output_file, textVars>>

\* Lines 436-489.
Assemble ==
    /\ pc = "merged_all"
    /\ LET r == assemble(result, all_data)
       IN  /\ output_data' = r.data
           /\ err' = r.err
           /\ pc' = IF r.err = "none" THEN "assembled" ELSE "crashed"
           /\ exit_code' = IF r.err = "none" THEN exit_code ELSE 1
    /\ UNCHANGED <<mergeVars, files, all_data, output_file, textVars>>

\* Lines 491-497: the output is generated, the file opened and written; main
\* returns.
WriteOk ==
    /\ pc = "assembled"
    /\ output_file' = "written"
    /\ pc' = "done"
    /\ exit_code' = 0
    /\ UNCHANGED <<err, mergeVars, files, all_data, output_data, textVars>>

\* Lines 498-500: open() or write() raised; the file is as it was or holds
\* part of the output.
WriteFailed ==
    /\ pc = "assembled"
    /\ output_file' \in {"untouched", "truncated"}
    /\ pc' = "exited"
    /\ exit_code' = 1
    /\ UNCHANGED <<err, mergeVars, files, all_data, output_data, textVars>>

Next ==
    \/ ParseOk
    \/ ParseNotFound
    \/ ParseFailed
    \/ Merge
    \/ Assemble
    \/ WriteOk
    \/ WriteFailed

Spec == Init /\ [][Next]_vars

(***************************************************************************)
(* SpecRound: a document is serialized and the text parsed again.          *)
(***************************************************************************)
MaxTextLen == 2

SeqsOver(S, n) == UNION {[1..len -> S] : len \in 0..n}

\* The characters the serializer escapes, a quote it does not, a letter.
TextChars == {"\\", "\"", "\n", "\r", "\t", "'", "a"}

Scalars ==
    {PyNone, PyBool(TRUE), PyBool(FALSE), PyInt(0), PyInt(-12), PyInt(305)}
    \cup {PyStr(x) : x \in SeqsOver(TextChars, MaxTextLen)}

TableKeys ==
    {PyInt(1), PyInt(-2), PyInt(10), PyStr(<<"a">>), PyStr(<<"b", "1">>),
     PyStr(<<"1">>), PyStr(<<"a", "\"">>), PyStr(<<"\\", "n">>)}

SmallValues ==
    {PyNone, PyBool(TRUE), PyInt(7), PyStr(<<"a", "\\">>), PyDict(<<>>),
     PyDict(PyStr(<<"k">>) :> PyStr(<<"\"">>))}

Tables ==
    {PyDict(<<>>)}
    \cup {PyDict(ka :> v) : ka \in TableKeys, v \in SmallValues}
    \cup {PyDict((ka :> PyInt(1)) @@ (kb :> PyDict(<<>>))) :
            ka \in TableKeys, kb \in TableKeys}

RoundDocs ==
    {PyDict(PyStr(<<"a">>) :> v) : v \in Scalars \cup Tables}
    \cup {PyDict((PyStr(<<"b">>) :> v) @@ (PyStr(<<"a", "b">>) :> w)) :
            v \in SmallValues, w \in SmallValues}

InitRound ==
    /\ pc = "serialize"
    /\ value \in RoundDocs
    /\ text = <<>>
    /\ parsed = Unused
    /\ commented = Unused /\ parsed_commented = Unused /\ insertion = Unused
    /\ err = "none" /\ exit_code = -1
    /\ annotations_list = Unused /\ k = 0 /\ merged = Unused
    /\ result = Unused /\ annotations_dict = Unused
    /\ files = Unused /\ all_data = Unused /\ output_data = Unused
    /\ output_file = Unused

\* output_content = generate_lua_output(output_data)
Serialize ==
    /\ pc = "serialize"
    /\ text' = generate_lua_output(value.t)
    /\ pc' = "parse"
    /\ UNCHANGED <<err, mergeVars, mainVars, value, commented, parsed,
                   parsed_commented, insertion>>

\* parse_lua_file on the text written.
Reparse ==
    /\ pc = "parse"
    /\ parsed' = parse_lua_file(text)
    /\ pc' = "reparsed"
    /\ UNCHANGED <<err, mergeVars, mainVars, value, text, commented,
                   parsed_commented, insertion>>

NextRound == Serialize \/ Reparse

SpecRound == InitRound /\ [][NextRound]_vars

(***************************************************************************)
(* SpecString: parse_lua_string on a text that opens with a quote.         *)
(***************************************************************************)
MaxStrLen == 3

StringChars == {"a", "n", "\\", "\"", "'", "\n", "\r"}

InitString ==
    /\ pc = "string"
    /\ \E q \in {"\"", "'"} :
           \E body \in SeqsOver(StringChars, MaxStrLen) : text = <<q>> \o body
    /\ parsed = Unused
    /\ value = Unused
    /\ commented = Unused /\ parsed_commented = Unused /\ insertion = Unused
    /\ err = "none" /\ exit_code = -1
    /\ annotations_list = Unused /\ k = 0 /\ merged = Unused
    /\ result = Unused /\ annotations_dict = Unused
    /\ files = Unused /\ all_data = Unused /\ output_data = Unused
    /\ output_file = Unused

ParseString ==
    /\ pc = "string"
    /\ parsed' = parse_lua_string(text, 1)
    /\ pc' = "string_parsed"
    /\ UNCHANGED <<err, mergeVars, mainVars, value, text, commented,
                   parsed_commented, insertion>>

NextString == ParseString

SpecString == InitString /\ [][NextString]_vars

(***************************************************************************)
(* SpecComment: a valid table text, given by its tokens, is parsed as it   *)
(* is and with one comment inserted between two adjacent tokens.           *)
(***************************************************************************)
MaxEq == 2

BaseTables ==
    { <<<<"{">>, <<"[">>, <<"\"", "a", "\"">>, <<"]">>, <<"=">>, <<"1">>, <<",">>, <<"b">>, <<"=">>, <<"\"", "-", "-", "\"">>, <<",">>, <<"}">>>>,
      <<<<"{">>, <<"[">>, <<"-", "1">>, <<"]">>, <<"=">>, <<"{">>, <<"a">>, <<"=">>, <<"n", "i", "l">>, <<"}">>, <<",">>, <<"[">>, <<"2">>, <<"]">>, <<"=">>, <<"t", "r", "u", "e">>, <<"}">>>>,
      <<<<"{">>, <<"a">>, <<"=">>, <<"[", "[", "x", "]", "]">>, <<",">>, <<"b">>, <<"=">>, <<"-", "1", "2">>, <<",">>, <<"c">>, <<"=">>, <<"'", "]", "]", "'">>, <<"}">>>>,
      <<<<"{">>, <<"[">>, <<"'", "k", "'">>, <<"]">>, <<"=">>, <<"[", "=", "[", "a", "]", "]", "]", "=", "]">>, <<",">>, <<"_", "x">>, <<"=">>, <<"f", "a", "l", "s", "e">>, <<",">>, <<"}">>>> }

CommentBodies ==
    { <<>>,
      <<"a">>,
      <<"a", "\n", "b">>,
      <<"]", "]">>,
      <<"]", "=", "]">>,
      <<"-", "-">>,
      <<"[", "=", "[">>,
      <<"{", " ", "\"">> }

\* "--" body newline: a line comment, unless the body opens a long bracket
\* (then it is a long comment) or holds a newline.
LineComments ==
    { <<"-", "-">> \o b \o <<"\n">> :
        b \in { c \in CommentBodies :
                  /\ \A i \in 1..Len(c) : c[i] # "\n"
                  /\ ~(At(c, 1) = "[" /\ At(c, SkipChars(c, 2, {"="})) = "[") } }

\* "--[" "="*n "[" body "]" "="*n "]": a long comment of level n, closed by
\* the first occurrence of its closing bracket.
LongComments ==
    { <<"-", "-", "[">> \o [i \in 1..n |-> "="] \o <<"[">> \o b \o ClosePattern(n) :
        <<n, b>> \in { nb \in (0..MaxEq) \X CommentBodies :
                         FindFrom(nb[2] \o ClosePattern(nb[1]), ClosePattern(nb[1]), 1)
                             = Len(nb[2]) + 1 } }

\* The tokens joined, sep between every two.
RECURSIVE Join(_, _)
Join(tokens, sep) ==
    IF tokens = <<>> THEN <<>>
    ELSE IF Len(tokens) = 1 THEN tokens[1]
    ELSE tokens[1] \o sep \o Join(Tail(tokens), sep)

InitComment ==
    /\ pc = "comment"
    /\ \E tokens \in BaseTables, sep \in {<<>>, <<" ">>} :
           \E at \in 1..(Len(tokens) - 1), c \in LineComments \cup LongComments :
               /\ insertion = [tokens |-> tokens, at |-> at, comment |-> c, sep |-> sep]
               /\ text = Join(tokens, sep)
               /\ commented = Join(SubSeq(tokens, 1, at), sep) \o sep \o c \o sep
                                  \o Join(SubSeq(tokens, at + 1, Len(tokens)), sep)
    /\ parsed = Unused
    /\ parsed_commented = Unused
    /\ value = Unused
    /\ err = "none" /\ exit_code = -1
    /\ annotations_list = Unused /\ k = 0 /\ merged = Unused
    /\ result = Unused /\ annotations_dict = Unused
    /\ files = Unused /\ all_data = Unused /\ output_data = Unused
    /\ output_file = Unused

ParsePlain ==
    /\ pc = "comment"
    /\ parsed' = parse_lua_table(text, 1)
    /\ pc' = "plain_parsed"
    /\ UNCHANGED <<err, mergeVars, mainVars, value, text, commented,
                   parsed_commented, insertion>>

ParseCommented ==
    /\ pc = "plain_parsed"
    /\ parsed_commented' = parse_lua_table(commented, 1)
    /\ pc' = "both_parsed"
    /\ UNCHANGED <<err, mergeVars, mainVars, value, text, commented, parsed,
                   insertion>>

NextComment == ParsePlain \/ ParseCommented

SpecComment == InitComment /\ [][NextComment]_vars

(***************************************************************************)
(* Claims about the merge engine (SpecMerge).                              *)
(***************************************************************************)
Flat == Flatten(annotations_list)
MergeReturned == pc \in {"merged", "renumbered"}

\* The identity of the specification: two records are the same annotation.
SameAnnotation(r1, r2) ==
    LET hl(r) == "pos0" \in DOMAIN r /\ "pos1" \in DOMAIN r
    IN  \/ /\ hl(r1) /\ hl(r2)
           /\ r1["pos0"] = r2["pos0"] /\ r1["pos1"] = r2["pos1"]
        \/ /\ ~hl(r1) /\ ~hl(r2)
           /\ Get(r1, "page", PyNone) = Get(r2, "page", PyNone)
           /\ Get(r1, "chapter", PyNone) = Get(r2, "chapter", PyNone)

\* The effective timestamp of the specification, a text.
Timestamp(r) ==
    IF "datetime_updated" \in DOMAIN r THEN r["datetime_updated"].s
    ELSE IF "datetime" \in DOMAIN r THEN r["datetime"].s
    ELSE <<>>

\* r holds the lexicographic maximum of the timestamps of the first n
\* input records that are the same annotation as r.
HoldsMaxTimestamp(r, n) ==
    /\ \E j \in 1..n : SameAnnotation(r, Flat[j]) /\ Timestamp(Flat[j]) = Timestamp(r)
    /\ \A j \in 1..n :
           SameAnnotation(r, Flat[j]) => ~StrLess(Timestamp(r), Timestamp(Flat[j]))

\* C1: recency wins.  After every step of the processing the record kept
\* for a key holds the lexicographic maximum of the effective timestamps of
\* the records with that key processed so far, and every record of the
\* returned list holds the maximum over all input records with its key,
\* whatever the order of the input.
C1_RecencyWins ==
    /\ (pc = "merging" /\ err = "none") =>
           \A i \in 1..Len(merged) : HoldsMaxTimestamp(merged[i].ann, k)
    /\ MergeReturned =>
           /\ \A i \in 1..Len(result) : HoldsMaxTimestamp(result[i], Len(Flat))
           /\ \A j \in 1..Len(Flat) :
                  \E i \in 1..Len(result) : SameAnnotation(result[i], Flat[j])

\* A later record came first in the input, an earlier one after it, and the
\* merge returned.
C1_Witness ==
    /\ pc = "renumbered"
    /\ \E i, j \in 1..Len(Flat) :
           /\ i < j
           /\ SameAnnotation(Flat[i], Flat[j])
           /\ StrLess(Timestamp(Flat[j]), Timestamp(Flat[i]))
    /\ \E i, j \in 1..Len(Flat) :
           /\ i < j
           /\ SameAnnotation(Flat[i], Flat[j])
           /\ StrLess(Timestamp(Flat[i]), Timestamp(Flat[j]))

HasNote(r) == "note" \in DOMAIN r /\ r["note"].kind = "text" /\ r["note"].s # <<>>

\* Some of the first n input records that are the same annotation as r holds
\* their maximal timestamp together with a non-empty note.
MaxHolderHasNote(r, n) ==
    \E j \in 1..n :
        /\ SameAnnotation(r, Flat[j])
        /\ HasNote(Flat[j])
        /\ \A l \in 1..n :
               SameAnnotation(r, Flat[l]) =>
                   ~StrLess(Timestamp(Flat[j]), Timestamp(Flat[l]))

\* C2: the note tie-break does not depend on the order.  If an input record
\* holding the maximal effective timestamp of its key has a non-empty note,
\* the survivor for that key has a non-empty note, at every step and in the
\* returned list.
C2_NoteTieBreak ==
    /\ (pc = "merging" /\ err = "none") =>
           \A i \in 1..Len(merged) :
               MaxHolderHasNote(merged[i].ann, k) => HasNote(merged[i].ann)
    /\ MergeReturned =>
           \A i \in 1..Len(result) :
               MaxHolderHasNote(result[i], Len(Flat)) => HasNote(result[i])

\* Two records with the same key and timestamp, the one with the note first
\* and one with an empty or absent note after it, and also the other order.
C2_Witness ==
    /\ pc = "renumbered"
    /\ \E i, j, l \in 1..Len(Flat) :
           /\ i < j /\ j < l
           /\ SameAnnotation(Flat[i], Flat[j]) /\ SameAnnotation(Flat[j], Flat[l])
           /\ Timestamp(Flat[i]) = Timestamp(Flat[j])
           /\ Timestamp(Flat[j]) = Timestamp(Flat[l])
           /\ ~HasNote(Flat[i]) /\ HasNote(Flat[j]) /\ ~HasNote(Flat[l])
           /\ "note" \in DOMAIN Flat[i] /\ "note" \notin DOMAIN Flat[l]

\* C3: merge identity.  The returned list holds exactly one record for each
\* identity occurring in the input, and every returned record is a copy of
\* an input record; records of different identities are never unified.
C3_MergeIdentity ==
    MergeReturned =>
        /\ \A j \in 1..Len(Flat) :
               Cardinality({i \in 1..Len(result) : SameAnnotation(result[i], Flat[j])}) = 1
        /\ \A i \in 1..Len(result) : \E j \in 1..Len(Flat) : result[i] = Flat[j]

\* A highlight and a bookmark whose remaining key components are equal were
\* both kept, and two bookmarks from different lists were unified.
C3_Witness ==
    /\ pc = "renumbered"
    /\ Len(result) = 2
    /\ Len(Flat) = 3
    /\ Len(annotations_list) = 2
    /\ \E i, j \in 1..2 :
           /\ "pos1" \in DOMAIN result[i] /\ "page" \in DOMAIN result[j]
           /\ result[i]["pos0"] = result[j]["page"]
           /\ result[i]["pos1"] = result[j]["chapter"]
    /\ \E i, j \in 1..3 :
           i # j /\ Flat[i] # Flat[j] /\ SameAnnotation(Flat[i], Flat[j])

\* The sort triple of the specification: pageno or 0, pos0 or empty text,
\* datetime or empty text.
Triple(r) ==
    [pageno |-> IF "pageno" \in DOMAIN r THEN r["pageno"].n ELSE 0,
     pos0 |-> IF "pos0" \in DOMAIN r THEN r["pos0"].s ELSE <<>>,
     datetime |-> IF "datetime" \in DOMAIN r THEN r["datetime"].s ELSE <<>>]

\* a is before b: pageno numerically, then pos0 and datetime as text.
TripleLess(a, b) ==
    \/ a.pageno < b.pageno
    \/ a.pageno = b.pageno /\ StrLess(a.pos0, b.pos0)
    \/ a.pageno = b.pageno /\ a.pos0 = b.pos0 /\ StrLess(a.datetime, b.datetime)

\* C4: sort order.  The returned list is non-decreasing in the triple
\* (pageno, pos0, datetime) with the defaults for missing fields, and the
\* renumbered table has the keys 1..N in that order.
C4_SortOrder ==
    /\ MergeReturned =>
           \A i, j \in 1..Len(result) :
               i < j => ~TripleLess(Triple(result[j]), Triple(result[i]))
    /\ pc = "renumbered" =>
           /\ DOMAIN annotations_dict = 1..Len(result)
           /\ \A i, j \in DOMAIN annotations_dict :
                  i < j => ~TripleLess(Triple(annotations_dict[j]),
                                       Triple(annotations_dict[i]))

\* Three records were returned in an order other than the input's: one
\* decided by pageno (2 before 10), one by pos0, one by datetime.
C4_Witness ==
    /\ pc = "renumbered"
    /\ Len(result) = 3
    /\ \E i \in 1..2 : Triple(result[i]).pageno = 2 /\ Triple(result[i + 1]).pageno = 10
    /\ Triple(result[1]).pageno = Triple(result[2]).pageno
    /\ \/ StrLess(Triple(result[1]).pos0, Triple(result[2]).pos0)
       \/ /\ Triple(result[1]).pos0 = Triple(result[2]).pos0
          /\ StrLess(Triple(result[1]).datetime, Triple(result[2]).datetime)
    /\ TripleLess(Triple(Flat[3]), Triple(Flat[2]))
    /\ TripleLess(Triple(Flat[2]), Triple(Flat[1]))

(***************************************************************************)
(* Claims about the pipeline (Spec).                                       *)
(***************************************************************************)
AllParsed == Len(all_data) = Len(files)
SomeInputBad == \E j \in 1..Len(files) : files[j].status # "ok"

\* C6: abort before write.  The files are parsed one after another in the
\* given order; the output file is touched only after every input was parsed
\* and the merge and the assembly succeeded; if an input is missing or
\* malformed the run ends with a non-zero exit status and the output file is
\* never touched; a write failure happens only after parsing, merging and
\* assembling succeeded.
C6_AbortBeforeWrite ==
    /\ Len(all_data) <= Len(files)
    /\ \A j \in 1..Len(all_data) :
           files[j].status = "ok" /\ all_data[j] = files[j].data
    /\ output_file # "untouched" =>
           /\ AllParsed
           /\ err = "none"
           /\ result = merge_annotations(Collect(all_data)).list
           /\ output_data = assemble(result, all_data).data
    /\ SomeInputBad =>
           /\ output_file = "untouched"
           /\ exit_code # 0
           /\ pc # "parsing" => pc = "exited" /\ exit_code = 1
    /\ (pc = "exited" /\ AllParsed) =>
           /\ err = "none"
           /\ merge_annotations(Collect(all_data)).err = "none"
           /\ assemble(result, all_data).err = "none"
           /\ output_data = assemble(result, all_data).data

\* The second of two files is malformed: the run has ended with status 1
\* after parsing the first, and the output file is untouched.
C6_Witness ==
    /\ pc = "exited"
    /\ exit_code = 1
    /\ Len(files) = 2
    /\ Len(all_data) = 1
    /\ files[2].status = "malformed"
    /\ "annotations" \in DOMAIN all_data[1]
    /\ output_file = "untouched"

\* The modified text of a summary, empty when it has none.
ModifiedText(v) ==
    IF v.kind = "table" /\ "modified" \in DOMAIN v.t THEN v.t["modified"].s ELSE <<>>

\* C7: summary selection.  Once the output is assembled, it has a summary
\* exactly when some input document carries a summary field, and that
\* summary is the one of the earliest document among those whose modified
\* text (empty when missing) is lexicographically greatest.
C7_SummarySelection ==
    pc \in {"assembled", "done"} =>
        LET carriers == {j \in 1..Len(all_data) : "summary" \in DOMAIN all_data[j]}
            greatest == {j \in carriers :
                            \A l \in carriers :
                                ~StrLess(ModifiedText(all_data[j]["summary"]),
                                         ModifiedText(all_data[l]["summary"]))}
        IN  /\ ("summary" \in DOMAIN output_data) <=> (carriers # {})
            /\ carriers # {} =>
                   output_data["summary"] =
                       all_data[CHOOSE j \in greatest : \A l \in greatest : j <= l]["summary"]

\* C9: merge and assemble have no error path: no run ends with an exception
\* raised by merge_annotations or by the assembly.
C9_NoErrorPath == err = "none"

(***************************************************************************)
(* Claims about the notation (SpecRound, SpecComment, SpecString).         *)
(***************************************************************************)
\* C5: the text the serializer writes for a document is accepted by the
\* parser and parses back to a value tree equal to the document, keys
\* included.
C5_RoundTrip ==
    pc = "reparsed" => parsed.err = "none" /\ parsed.val = value

\* Every text key of v, at any depth, holds neither a double quote nor a
\* backslash.
RECURSIVE PlainKeys(_)
PlainKeys(v) ==
    v.kind = "table" =>
        \A key \in DOMAIN v.t :
            /\ key.kind = "text" =>
                   \A i \in 1..Len(key.s) : key.s[i] \notin {"\"", "\\"}
            /\ PlainKeys(v.t[key])

\* The round trip of C5 for the documents whose text keys hold neither a
\* double quote nor a backslash (every special character in the values).
RoundTripPlainKeys ==
    pc = "reparsed" /\ PlainKeys(value) =>
        parsed.err = "none" /\ parsed.val = value

\* C8: a line comment or a closed long comment (0, 1 or 2 '=') inserted
\* between two adjacent tokens of a valid table text leaves the parsed table
\* as it is without the comment.
C8_CommentTransparent ==
    pc = "both_parsed" =>
        /\ parsed.err = "none"
        /\ parsed_commented.err = "none"
        /\ parsed_commented.val = parsed.val

\* A long comment with two '=' whose body holds a closing bracket of a lower
\* level, inserted after the '[' of a bracketed key, and both texts parsed
\* to the same non-empty table.
C8_Witness ==
    /\ pc = "both_parsed"
    /\ insertion.tokens[insertion.at] = <<"[">>
    /\ Slice(insertion.comment, 1, 5) = <<"-", "-", "[", "=", "=">>
    /\ FindFrom(insertion.comment, <<"]", "=", "]">>, 1) # 0
    /\ parsed.err = "none"
    /\ DOMAIN parsed.val.t # {}
    /\ parsed_commented.val = parsed.val

\* s holds, after its opening quote s[1], the same quote with an even
\* number of backslashes right before it: the quote that closes the string.
Terminated(s) ==
    \E i \in 2..Len(s) :
        /\ s[i] = s[1]
        /\ \E j \in 1..(i - 1) :
               /\ s[j] # "\\"
               /\ \A m \in (j + 1)..(i - 1) : s[m] = "\\"
               /\ (i - 1 - j) % 2 = 0

\* C10: parse_lua_string on a short string that reaches the end of the
\* input without its closing quote fails with an error and returns no text.
C10_UnterminatedIsError ==
    pc = "string_parsed" /\ ~Terminated(text) => parsed.err # "none"

\* A short string with its closing quote is read up to that quote.
TerminatedIsRead ==
    pc = "string_parsed" /\ Terminated(text) =>
        /\ parsed.err = "none"
        /\ text[parsed.pos - 1] = text[1]
        /\ Terminated(SubSeq(text, 1, parsed.pos - 1))
        /\ \A e \in 2..(parsed.pos - 2) : ~Terminated(SubSeq(text, 1, e))

====
